---- MODULE Spec2Model ----
(***************************************************************************)
(* Active SAN Defense Framework.                                           *)
(*                                                                         *)
(* Five specifications over one set of variables:                          *)
(*   Spec       the discrete-event run: FailingSwitch load monitors, put,  *)
(*              port transmission and the RoutingController process, in    *)
(*              the order simpy's event queue gives them                   *)
(*   SpecRoute  RoutingController cycles on drawn graphs, loads and        *)
(*              failures                                                   *)
(*   SpecFlow   ReliabilityMath.simulate_traffic_flow on drawn topologies, *)
(*              traffic, thresholds and scenarios                          *)
(*   SpecInput  the caller's run: the topology built from the mode and the *)
(*              custom lists, then the engine on any traffic and threshold *)
(*   SpecComp   the compression stage: packets handed to                   *)
(*              CompressionWrapper.put                                     *)
(*                                                                         *)
(* Conventions.  Time is counted in half time units (1.0 = 2).  A load is  *)
(* stored as its numerator over total_buffer_capacity, and edge weights    *)
(* are in the same unit (1 = total_buffer_capacity).  float('inf') is the  *)
(* absorbing value Inf.  Traffic amounts are exact integers: the inputs    *)
(* are multiples that keep every product and quotient of the code whole.   *)
(***************************************************************************)
EXTENDS Integers, Sequences, FiniteSets, TLC

VARIABLES
    \* ---- discrete-event run and routing controller
    graph,            \* RoutingController.network_graph (topology part)
    weight,           \* network_graph.edges[u, v]['weight']
    is_failed,        \* FailingSwitch.is_failed, per switch
    current_load,     \* FailingSwitch.current_load, per switch
    fib,              \* switch.fib, per switch: dest -> next hop
    ports,            \* FailingSwitch.ports: per switch, a sequence of [out, byte_size]
    now,              \* env.now
    queue,            \* simpy's event queue, in firing order
    running,          \* the process that is between two yields, or NoProc
    update_interval,  \* RoutingController.update_interval
    hist,             \* history of the run (what the last operation did)
    caller_graph,     \* the graph object the caller passed to RoutingController
    comp,             \* the CompressionWrapper, the calls of its put, its output
    \* ---- propagation engine (simulate_traffic_flow)
    custom,           \* the topology chosen: mode, custom_nodes, custom_edges
    G,                \* the topology handed to the engine
    raw_traffic,      \* raw_traffic
    threshold,        \* threshold
    scenario_type,    \* scenario_type
    ratio_draw,       \* the value random.uniform returns in ANSCompressor.compress
    result,           \* the snapshot returned, or NoResult before the call
    previous          \* the call before the last one: its traffic and snapshot

desVars == <<graph, weight, is_failed, current_load, fib, ports, now, queue,
             running, update_interval, hist, caller_graph, comp>>

flowVars == <<custom, G, raw_traffic, threshold, scenario_type, ratio_draw,
              result, previous>>

vars == <<desVars, flowVars>>

-----------------------------------------------------------------------------
(* Values *)

None == "None"
NoProc == [kind |-> "none", sw |-> "None"]
Sink == "SINK"

\* float('inf'): absorbing under addition, never less than itself
Inf == 1000000

Plus(a, b) == IF a = Inf \/ b = Inf THEN Inf ELSE a + b

Min(a, b) == IF a <= b THEN a ELSE b

SeqToSet(s) == {s[i] : i \in 1..Len(s)}

RECURSIVE Pow2(_)
Pow2(n) == IF n <= 0 THEN 1 ELSE 2 * Pow2(n - 1)

-----------------------------------------------------------------------------
(* Bounds of the discrete-event run *)

\* env.run(until = ...): events later than MaxTime are not processed
MaxTime == 4

\* Port.qlimit, in packets
QLimit == 1

\* interval of FailingSwitch.monitor_load: 1.0 time unit = 2 half units
MonitorInterval == 2

\* the update_interval values a controller is built with: 0.5, 1.0, 2.0
UpdateIntervals == {1, 2, 4}

\* n_ports of every switch
n_ports == 2

\* total_buffer_capacity = sum of the ports' qlimit
total_buffer_capacity == n_ports * QLimit

\* resolution of random.random(): a draw r stands for r / RandRes
RandRes == 4

-----------------------------------------------------------------------------
(* The controller's graph: networkx keeps nodes and adjacency in insertion  *)
(* order.  A graph is [nodes, keys, edges, directed]: nodes in insertion    *)
(* order, keys = list(switches.keys()), edges in insertion order.           *)

NodeSet(g) == SeqToSet(g.nodes)

Pos(seq, x) == CHOOSE i \in 1..Len(seq) : seq[i] = x

\* the ordered pairs G.edges[u, v] accepts: both orientations when undirected
Arcs(g) ==
    {g.edges[i] : i \in 1..Len(g.edges)}
        \cup (IF g.directed THEN {}
              ELSE {<<g.edges[i][2], g.edges[i][1]>> : i \in 1..Len(g.edges)})

\* G._adj[v], in insertion order
RECURSIVE AdjFrom(_, _, _)
AdjFrom(g, v, i) ==
    IF i > Len(g.edges) THEN <<>>
    ELSE LET e == g.edges[i]
         IN (IF e[1] = v THEN <<e[2]>>
             ELSE IF ~g.directed /\ e[2] = v THEN <<e[1]>>
             ELSE <<>>) \o AdjFrom(g, v, i + 1)

Adj(g, v) == AdjFrom(g, v, 1)

\* the node v of the pair (u, v) that network_graph.edges() yields for the
\* arc a: the arc's head in a DiGraph; in a Graph each edge is yielded once,
\* from its endpoint that comes first in node order
YieldedHead(g, a) ==
    IF g.directed \/ Pos(g.nodes, a[1]) <= Pos(g.nodes, a[2]) THEN a[2] ELSE a[1]

\* the weight attribute is absent until the first cycle sets it
NoWeight == -1

\* RoutingController.run, step 1: the weight of every edge
EdgeWeight(failed, load, v) ==
    IF ~failed[v] THEN Plus(total_buffer_capacity, load[v]) ELSE Inf

RunWeights(g, failed, load) ==
    [a \in Arcs(g) |-> EdgeWeight(failed, load, YieldedHead(g, a))]

\* networkx's weight function for weight='weight': data.get('weight', 1)
Cost(w, u, v) == IF w[<<u, v>>] = NoWeight THEN total_buffer_capacity ELSE w[<<u, v>>]

-----------------------------------------------------------------------------
(* nx.dijkstra_path: networkx's _dijkstra_multisource with one source and a *)
(* target.  The fringe holds (distance, counter, node); the smallest tuple  *)
(* is popped, so equal distances leave in the order they were pushed.       *)

Absent == -1

FringeLess(e, f) == e[1] < f[1] \/ (e[1] = f[1] /\ e[2] < f[2])

\* the loop over G._adj[v].items() for the popped node v
RECURSIVE Relax(_, _, _, _, _)
Relax(g, w, v, nbrs, st) ==
    IF nbrs = <<>> THEN st
    ELSE LET u == Head(nbrs)
             vu_dist == Plus(st.dist[v], Cost(w, v, u))
             st2 == IF st.dist[u] # Absent THEN st
                    ELSE IF st.seen[u] = Absent \/ vu_dist < st.seen[u]
                         THEN [st EXCEPT !.seen[u] = vu_dist,
                                         !.fringe = @ \cup {<<vu_dist, st.c, u>>},
                                         !.c = @ + 1,
                                         !.paths[u] = Append(st.paths[v], u)]
                         ELSE st
         IN Relax(g, w, v, Tail(nbrs), st2)

RECURSIVE DijkstraLoop(_, _, _, _)
DijkstraLoop(g, w, target, st) ==
    IF st.fringe = {} THEN st
    ELSE LET top == CHOOSE e \in st.fringe :
                        \A f \in st.fringe : f = e \/ FringeLess(e, f)
             v == top[3]
             popped == [st EXCEPT !.fringe = @ \ {top}]
         IN IF st.dist[v] # Absent THEN DijkstraLoop(g, w, target, popped)
            ELSE LET settled == [popped EXCEPT !.dist[v] = top[1]]
                 IN IF v = target THEN settled
                    ELSE DijkstraLoop(g, w, target,
                                      Relax(g, w, v, Adj(g, v), settled))

\* the path [source, ..., target], or <<>> where networkx raises NetworkXNoPath
dijkstra_path(g, w, source, target) ==
    LET st0 == [dist   |-> [n \in NodeSet(g) |-> Absent],
                seen   |-> [n \in NodeSet(g) |-> IF n = source THEN 0 ELSE Absent],
                paths  |-> [n \in NodeSet(g) |-> IF n = source THEN <<source>> ELSE <<>>],
                fringe |-> {<<0, 0, source>>},
                c      |-> 1]
        fin == DijkstraLoop(g, w, target, st0)
    IN IF fin.dist[target] = Absent THEN <<>> ELSE fin.paths[target]

\* the total weight of a path
RECURSIVE PathWeight(_, _)
PathWeight(w, path) ==
    IF Len(path) < 2 THEN 0
    ELSE Plus(Cost(w, path[1], path[2]), PathWeight(w, Tail(path)))

-----------------------------------------------------------------------------
(* RoutingController.update_all_fibs *)

\* itertools.permutations(self.nodes, 2), in order: the k-th pair
Permutations2(keys) ==
    LET n == Len(keys)
    IN [k \in 1..(n * (n - 1)) |->
          LET i == ((k - 1) \div (n - 1)) + 1
              r == ((k - 1) % (n - 1)) + 1
              j == IF r < i THEN r ELSE r + 1
          IN <<keys[i], keys[j]>>]

\* (mutant) the FIB of every switch on the path is written, failed or not
MayWriteAlways(failed, sw) == TRUE

\* if not current_switch.is_failed: the switch's FIB is written
MayWrite(failed, sw) == ~failed[sw]

\* (mutant) the first pair without a path ends the loop over the pairs
FibFromPathsAborting(g, failed, f, pairs, path) ==
    LET Done(k) == \A j \in 1..k : path[j] # <<>>
        Hops(k, sw) == {i \in 1..(Len(path[k]) - 1) : path[k][i] = sw}
        Writes(sw, dest) ==
            {k \in 1..Len(pairs) : Done(k) /\ pairs[k][2] = dest /\ Hops(k, sw) # {}}
    IN [sw \in NodeSet(g) |->
          [dest \in NodeSet(g) |->
              IF MayWrite(failed, sw) /\ Writes(sw, dest) # {}
              THEN LET k == CHOOSE m \in Writes(sw, dest) :
                                \A j \in Writes(sw, dest) : j <= m
                       i == CHOOSE h \in Hops(k, sw) :
                                \A j \in Hops(k, sw) : j <= h
                   IN path[k][i + 1]
              ELSE f[sw][dest]]]

\* The loop over the pairs writes fib[path[i]][dest] = path[i + 1] for every
\* hop of every pair's path, in order; an entry ends as its last write, or
\* as it was if the loop does not write it.  A pair without a path
\* (NetworkXNoPath) writes nothing.  path[k] is the path of the k-th pair.
FibFromPaths(g, failed, f, pairs, path) ==
    LET Hops(k, sw) == {i \in 1..(Len(path[k]) - 1) : path[k][i] = sw}
        Writes(sw, dest) ==
            {k \in 1..Len(pairs) : pairs[k][2] = dest /\ Hops(k, sw) # {}}
    IN [sw \in NodeSet(g) |->
          [dest \in NodeSet(g) |->
              IF MayWrite(failed, sw) /\ Writes(sw, dest) # {}
              THEN LET k == CHOOSE m \in Writes(sw, dest) :
                                \A j \in Writes(sw, dest) : j <= m
                       i == CHOOSE h \in Hops(k, sw) :
                                \A j \in Hops(k, sw) : j <= h
                   IN path[k][i + 1]
              ELSE f[sw][dest]]]

\* every pair's path is computed once, on the weights of this cycle
update_all_fibs(g, w, failed, f) ==
    CHOOSE r \in {FibFromPaths(g, failed, f, pairs, path) :
                    pairs \in {Permutations2(g.keys)},
                    path \in {[k \in 1..(Len(g.keys) * (Len(g.keys) - 1)) |->
                                 dijkstra_path(g, w, Permutations2(g.keys)[k][1],
                                               Permutations2(g.keys)[k][2])]}} : TRUE

EmptyFib(g) == [s \in NodeSet(g) |-> [d \in NodeSet(g) |-> None]]

-----------------------------------------------------------------------------
(* The discrete-event run *)

\* the controller's graph of the run: three switches, every pair linked
DesGraph ==
    [nodes    |-> <<"SW1", "SW2", "SW3">>,
     keys     |-> <<"SW1", "SW2", "SW3">>,
     edges    |-> << <<"SW1", "SW2">>, <<"SW2", "SW3">>, <<"SW1", "SW3">> >>,
     directed |-> FALSE]

Switches == NodeSet(DesGraph)

\* the static route programmed before the run: port.out of every port
Wiring ==
    [s \in Switches |->
        IF s = "SW1" THEN <<None, "SW2">>
        ELSE IF s = "SW2" THEN <<Sink, None>>
        ELSE <<None, Sink>>]

\* packet_gen.out: the switches a packet generator feeds
Entry == {"SW1"}

Monitor(s) == [kind |-> "monitor", sw |-> s]
Controller == [kind |-> "controller", sw |-> None]
ControllerInit == [kind |-> "controller_init", sw |-> None]

\* (mutant) a queue that puts a new event before the events of its own time
RECURSIVE ScheduleFirst(_, _)
ScheduleFirst(q, ev) ==
    IF q = <<>> THEN <<ev>>
    ELSE IF Head(q).time < ev.time THEN <<Head(q)>> \o ScheduleFirst(Tail(q), ev)
    ELSE <<ev>> \o q

\* simpy orders events by (time, scheduling order): a new event goes
\* behind every event whose time is not later than its own
RECURSIVE Schedule(_, _)
Schedule(q, ev) ==
    IF q = <<>> THEN <<ev>>
    ELSE IF Head(q).time <= ev.time THEN <<Head(q)>> \o Schedule(Tail(q), ev)
    ELSE <<ev>> \o q

Event(t, proc) == [time |-> t, proc |-> proc]

\* (mutant) a scheduler that resumes a process while another is mid-step
IdleAlways == TRUE

\* a process runs from one yield to the next without another being resumed:
\* the next event is taken only when no process is between two yields
Idle == running = NoProc

NextIs(proc) ==
    /\ Idle
    /\ queue # <<>>
    /\ Head(queue).proc = proc
    /\ Head(queue).time <= MaxTime

\* monitor_load: the occupancy summed over the ports
Occupancy(prts) ==
    LET RECURSIVE Sum(_)
        Sum(i) == IF i > Len(prts) THEN 0 ELSE prts[i].byte_size + Sum(i + 1)
    IN Sum(1)

\* (mutant) the exponent has the other sign: the rate decays with the load,
\* (1 / base_mttf) * e^(-alpha * load), less than one draw out of RandRes
FailureDrawsDecaying(load) == IF load > 0 THEN 0 ELSE 1

\* failure_rate * interval as a number of draws out of RandRes, for
\* base_mttf = RandRes and failure_alpha = ln(2) * total_buffer_capacity:
\* 1 / base_mttf at load 0, (1 / base_mttf) * e^(alpha * load) above
FailureDraws(load) == IF load > 0 THEN Min(Pow2(load), RandRes) ELSE 1

\* (mutant) fail_switch that leaves the ports connected
SeverNothing(prts) == prts

\* fail_switch: for port in self.ports: port.out = None
SeverPorts(prts) == [i \in 1..Len(prts) |-> [prts[i] EXCEPT !.out = None]]

\* (mutant) fail_switch that rebuilds the flags, clearing the other switches'
fail_switch_resetting(failed, prts, s) ==
    [failed |-> [t \in DOMAIN failed |-> t = s],
     ports  |-> [prts EXCEPT ![s] = SeverPorts(prts[s])]]

\* fail_switch, on the pair (is_failed, ports) of the run
fail_switch(failed, prts, s) ==
    [failed |-> [failed EXCEPT ![s] = TRUE],
     ports  |-> [prts EXCEPT ![s] = SeverPorts(prts[s])]]

\* put: the ports with an output, in order
Connected(prts, s) == {i \in 1..Len(prts[s]) : prts[s][i].out # None}

\* put hands the packet to a port
Forwards(failed, prts, s) == ~failed[s] /\ Connected(prts, s) # {}

\* Port.put: the packet is queued unless the buffer is full
PortPut(prts, s, i) ==
    IF prts[s][i].byte_size < QLimit
    THEN [prts EXCEPT ![s][i].byte_size = @ + 1]
    ELSE prts

\* FailingSwitch.put
put(failed, prts, s) ==
    IF Forwards(failed, prts, s)
    THEN PortPut(prts, s, CHOOSE i \in Connected(prts, s) :
                              \A j \in Connected(prts, s) : i <= j)
    ELSE prts

NoOp == [name |-> "none", sw |-> None, wasFailed |-> FALSE, forwarded |-> FALSE,
         sender |-> None, senderFailed |-> FALSE, delivered |-> FALSE,
         draw |-> -1, load |-> -1]

NoRead == [at |-> -1, tick |-> [s \in Switches |-> -1],
           failed |-> [s \in Switches |-> FALSE]]

\* no propagation is run
NoResult == [done |-> FALSE]

\* CompressionWrapper.__init__: nothing processed, nothing handed to put
NoComp == [packets_processed |-> 0, bytes_saved |-> 0, calls |-> <<>>, out |-> <<>>]

\* the caller's graph g, of which RoutingController.__init__ takes a copy:
\* its nodes, its edges and the edges' attributes (no 'weight' is set)
PassedGraph(g) == [topology |-> g, weight |-> [a \in Arcs(g) |-> NoWeight]]

NoPrevious == [done |-> FALSE]

\* the topology is not built from a choice made in the run
NoCustom == [mode |-> "None", custom_nodes |-> <<>>, custom_edges |-> <<>>]

NoFlow ==
    /\ custom = NoCustom
    /\ G = <<>>
    /\ raw_traffic = 0
    /\ threshold = 0
    /\ scenario_type = "Baseline"
    /\ ratio_draw = <<1, 1>>
    /\ result = NoResult
    /\ previous = NoPrevious

Init ==
    /\ graph = DesGraph
    /\ caller_graph = PassedGraph(DesGraph)
    /\ comp = NoComp
    /\ weight = [a \in Arcs(DesGraph) |-> NoWeight]
    /\ is_failed = [s \in Switches |-> FALSE]
    /\ current_load = [s \in Switches |-> 0]
    /\ fib = EmptyFib(DesGraph)
    /\ ports = [s \in Switches |->
                  [i \in 1..n_ports |-> [out |-> Wiring[s][i], byte_size |-> 0]]]
    /\ now = 0
    /\ queue = [i \in 1..Len(DesGraph.keys) |-> Event(0, Monitor(DesGraph.keys[i]))]
                   \o <<Event(0, ControllerInit)>>
    /\ running = NoProc
    /\ update_interval \in UpdateIntervals
    /\ hist = [op |-> NoOp, lastTick |-> [s \in Switches |-> -1], read |-> NoRead]
    /\ NoFlow

\* (mutant) the load is not re-read from the ports at the tick
MonitorSampleStale(s) ==
    /\ NextIs(Monitor(s))
    /\ now' = Head(queue).time
    /\ queue' = Tail(queue)
    /\ IF ~is_failed[s]
       THEN /\ running' = Monitor(s)
            /\ hist' = [hist EXCEPT !.op = NoOp, !.lastTick[s] = Head(queue).time]
       ELSE /\ hist' = [hist EXCEPT !.op = NoOp]
            /\ UNCHANGED running
    /\ UNCHANGED <<graph, weight, is_failed, current_load, fib, ports,
                   update_interval, caller_graph, comp, flowVars>>

\* monitor_load, from the top of the loop to the failure rate; the loop (and
\* the process) ends when the switch is found failed at the top
MonitorSample(s) ==
    /\ NextIs(Monitor(s))
    /\ now' = Head(queue).time
    /\ queue' = Tail(queue)
    /\ IF ~is_failed[s]
       THEN /\ current_load' = [current_load EXCEPT ![s] = Occupancy(ports[s])]
            /\ running' = Monitor(s)
            /\ hist' = [hist EXCEPT !.op = NoOp, !.lastTick[s] = Head(queue).time]
       ELSE /\ hist' = [hist EXCEPT !.op = NoOp]
            /\ UNCHANGED <<current_load, running>>
    /\ UNCHANGED <<graph, weight, is_failed, fib, ports, update_interval,
                   caller_graph, comp, flowVars>>

\* monitor_load, the draw: fail_switch and return, or yield timeout(interval)
MonitorDraw(s) ==
    /\ running = Monitor(s)
    /\ \E r \in 0..(RandRes - 1) :
          /\ IF r < FailureDraws(current_load[s])
             THEN /\ is_failed' = fail_switch(is_failed, ports, s).failed
                  /\ ports' = fail_switch(is_failed, ports, s).ports
                  /\ queue' = queue
             ELSE /\ queue' = Schedule(queue, Event(now + MonitorInterval, Monitor(s)))
                  /\ UNCHANGED <<is_failed, ports>>
          /\ hist' = [hist EXCEPT !.op = [NoOp EXCEPT !.name = "draw", !.sw = s,
                                                      !.draw = r,
                                                      !.load = current_load[s]]]
    /\ running' = NoProc
    /\ UNCHANGED <<graph, weight, current_load, fib, now, update_interval,
                   caller_graph, comp, flowVars>>

\* RoutingController.run up to its first yield
CtrlStart ==
    /\ NextIs(ControllerInit)
    /\ now' = Head(queue).time
    /\ queue' = Schedule(Tail(queue), Event(Head(queue).time + update_interval, Controller))
    /\ hist' = [hist EXCEPT !.op = NoOp]
    /\ UNCHANGED <<graph, weight, is_failed, current_load, fib, ports, running,
                   update_interval, caller_graph, comp, flowVars>>

\* (mutant) the controller keeps the caller's graph object instead of a copy:
\* the weights land on the caller's edges too
CtrlReweightShared ==
    /\ NextIs(Controller)
    /\ now' = Head(queue).time
    /\ queue' = Tail(queue)
    /\ weight' = RunWeights(graph, is_failed, current_load)
    /\ caller_graph' = [caller_graph EXCEPT !.weight = weight']
    /\ running' = Controller
    /\ hist' = [hist EXCEPT !.op = NoOp,
                            !.read = [at |-> Head(queue).time,
                                      tick |-> hist.lastTick,
                                      failed |-> is_failed]]
    /\ UNCHANGED <<graph, is_failed, current_load, fib, ports, update_interval,
                   comp, flowVars>>

\* RoutingController.run, step 1: the weights from the switches' state
CtrlReweight ==
    /\ NextIs(Controller)
    /\ now' = Head(queue).time
    /\ queue' = Tail(queue)
    /\ weight' = RunWeights(graph, is_failed, current_load)
    /\ running' = Controller
    /\ hist' = [hist EXCEPT !.op = NoOp,
                            !.read = [at |-> Head(queue).time,
                                      tick |-> hist.lastTick,
                                      failed |-> is_failed]]
    /\ UNCHANGED <<graph, is_failed, current_load, fib, ports, update_interval,
                   caller_graph, comp, flowVars>>

\* RoutingController.run, step 2, and the yield at the top of the loop
CtrlUpdateFibs ==
    /\ running = Controller
    /\ fib' = update_all_fibs(graph, weight, is_failed, fib)
    /\ queue' = Schedule(queue, Event(now + update_interval, Controller))
    /\ running' = NoProc
    /\ hist' = [hist EXCEPT !.op = NoOp]
    /\ UNCHANGED <<graph, weight, is_failed, current_load, ports, now,
                   update_interval, caller_graph, comp, flowVars>>

\* a packet generator hands a packet to switch s
Put(s) ==
    /\ Idle
    /\ ports' = put(is_failed, ports, s)
    /\ hist' = [hist EXCEPT !.op = [NoOp EXCEPT !.name = "put", !.sw = s,
                                       !.wasFailed = is_failed[s],
                                       !.forwarded = Forwards(is_failed, ports, s)]]
    /\ UNCHANGED <<graph, weight, is_failed, current_load, fib, now, queue, running,
                   update_interval, caller_graph, comp, flowVars>>

\* port i of switch s transmits its head packet to port.out
PortSend(s, i) ==
    /\ Idle
    /\ ports[s][i].byte_size > 0
    /\ LET out == ports[s][i].out
           sent == [ports EXCEPT ![s][i].byte_size = @ - 1]
       IN /\ ports' = IF out \in Switches THEN put(is_failed, sent, out) ELSE sent
          /\ hist' = [hist EXCEPT !.op =
                        [name |-> "send",
                         sw |-> IF out \in Switches THEN out ELSE None,
                         wasFailed |-> out \in Switches /\ is_failed[out],
                         forwarded |-> out \in Switches /\ Forwards(is_failed, sent, out),
                         sender |-> s,
                         senderFailed |-> is_failed[s],
                         delivered |-> out # None]]
    /\ UNCHANGED <<graph, weight, is_failed, current_load, fib, now, queue, running,
                   update_interval, caller_graph, comp, flowVars>>

Next ==
    \/ \E s \in Switches : MonitorSample(s)
    \/ \E s \in Switches : MonitorDraw(s)
    \/ CtrlStart
    \/ CtrlReweight
    \/ CtrlUpdateFibs
    \/ \E s \in Entry : Put(s)
    \/ \E s \in Switches : \E i \in 1..n_ports : PortSend(s, i)

Spec == Init /\ [][Next]_vars

-----------------------------------------------------------------------------
(* Claims on the discrete-event run *)

\* C1: once a switch's is_failed is true it stays true in every later state:
\* no monitor tick, put, port transmission or controller cycle resets it, and
\* its load monitor runs no further tick (it is never again the running
\* process and its last tick time never changes).
C1_FailedIsTerminal ==
    [][\A s \in Switches :
          is_failed[s] =>
              /\ is_failed'[s]
              /\ running' # Monitor(s)
              /\ hist'.lastTick[s] = hist.lastTick[s]]_vars

\* a switch the controller has already read as failed is handed a packet
C1_Witness ==
    \E s \in Switches :
        /\ is_failed[s]
        /\ hist.read.failed[s]
        /\ hist.op.name = "put" /\ hist.op.sw = s /\ hist.op.wasFailed

\* C2: a failed switch has out = None on every port, a put on a failed switch
\* hands the packet to no port, and a failed switch's port delivers nothing
\* to its downstream element.
C2_FailedDropsAll ==
    /\ \A s \in Switches :
          is_failed[s] => \A i \in 1..Len(ports[s]) : ports[s][i].out = None
    /\ hist.op.wasFailed => ~hist.op.forwarded
    /\ hist.op.senderFailed => ~hist.op.delivered

\* a port of a failed switch transmits a packet queued before the failure
C2_Witness ==
    /\ hist.op.name = "send"
    /\ hist.op.senderFailed
    /\ is_failed[hist.op.sender]

\* the tick whose values a recompute at time t would read if every tick with
\* a timestamp at or before t had run: the latest multiple of the interval
LatestTickAtOrBefore(t) == (t \div MonitorInterval) * MonitorInterval

\* the tick that has run before a recompute at time t: a tick of the same
\* timestamp runs first only if its timeout was scheduled before the
\* controller's, which is so for update_interval <= the monitor's interval
LatestTickRunBefore(t, ui) ==
    IF t % MonitorInterval = 0 /\ ui > MonitorInterval
    THEN t - MonitorInterval
    ELSE LatestTickAtOrBefore(t)

\* C6 (as stated): at every recompute at time t, the state read for every
\* switch that is not failed is that of its tick with the latest timestamp at
\* or before t, a tick at t included.
C6_ReadsTickAtOrBefore ==
    hist.read.at >= 0 =>
        \A s \in Switches :
            ~hist.read.failed[s] =>
                hist.read.tick[s] = LatestTickAtOrBefore(hist.read.at)

\* C6 (amended): the state read is that of the latest tick that ran before
\* the recompute in the queue's order: the tick at t for update_interval 0.5
\* and 1.0, the tick at t - 1.0 for update_interval 2.0.
C6_ReadsLatestTickRun ==
    hist.read.at >= 0 =>
        \A s \in Switches :
            ~hist.read.failed[s] =>
                hist.read.tick[s] = LatestTickRunBefore(hist.read.at, update_interval)

\* a recompute at time 1.0 that follows the monitors' ticks of time 1.0
C6_Witness ==
    /\ hist.read.at = MonitorInterval
    /\ update_interval = MonitorInterval
    /\ \E s \in Switches : ~hist.read.failed[s] /\ hist.read.tick[s] = MonitorInterval

\* C7: while the controller is between reweighting and the FIB rewrite, the
\* next step is the FIB rewrite from exactly the weights of the switches'
\* state, and no switch state changes; while a monitor is between its sample
\* and its draw, the next step changes no weight, FIB or load and no other
\* switch.
C7_NoInterleaving ==
    [][/\ running = Controller =>
            /\ weight = RunWeights(graph, is_failed, current_load)
            /\ weight' = weight
            /\ fib' = update_all_fibs(graph, weight, is_failed, fib)
            /\ is_failed' = is_failed
            /\ current_load' = current_load
            /\ ports' = ports
       /\ \A s \in Switches :
            running = Monitor(s) =>
                /\ weight' = weight
                /\ fib' = fib
                /\ current_load' = current_load
                /\ running' = NoProc
                /\ \A t \in Switches \ {s} :
                      is_failed'[t] = is_failed[t] /\ ports'[t] = ports[t]]_vars

\* the controller is mid-cycle while a monitor tick of the same time waits
C7_Witness ==
    /\ running = Controller
    /\ \E i \in 1..Len(queue) :
          queue[i].time = now /\ queue[i].proc.kind = "monitor"

-----------------------------------------------------------------------------
(* Routing-controller cycles on drawn graphs.  A run starts before the      *)
(* controller's first cycle, with the loads the monitors have sampled (the  *)
(* traffic is steady: later ticks sample the same loads); switches fail     *)
(* between cycles.                                                          *)

\* the largest load (over total_buffer_capacity) a monitor has sampled
MaxLoad == 1

\* the most switches that fail in one run
MaxFailed == 1

\* a chain: SW2 lies on the only path from SW1 to SW3
ChainGraph ==
    [nodes    |-> <<"SW1", "SW2", "SW3">>,
     keys     |-> <<"SW1", "SW2", "SW3">>,
     edges    |-> << <<"SW1", "SW2">>, <<"SW2", "SW3">> >>,
     directed |-> TRUE]

\* two equal-length routes SW1-SW2-SW4 and SW1-SW3-SW4, and a spur SW1-SW5
DiamondGraph ==
    [nodes    |-> <<"SW1", "SW2", "SW3", "SW4", "SW5">>,
     keys     |-> <<"SW1", "SW2", "SW3", "SW4", "SW5">>,
     edges    |-> << <<"SW1", "SW2">>, <<"SW1", "SW3">>, <<"SW2", "SW4">>,
                     <<"SW3", "SW4">>, <<"SW1", "SW5">> >>,
     directed |-> FALSE]

\* a chain against the node order: the first pairs of the loop have no path
BackChainGraph ==
    [nodes    |-> <<"SW1", "SW2", "SW3">>,
     keys     |-> <<"SW1", "SW2", "SW3">>,
     edges    |-> << <<"SW3", "SW2">>, <<"SW2", "SW1">> >>,
     directed |-> TRUE]

RouteGraphs == {ChainGraph, BackChainGraph, DiamondGraph, DesGraph}

Recomputed == [NoOp EXCEPT !.name = "recompute"]

InitRoute ==
    /\ graph \in RouteGraphs
    /\ caller_graph = PassedGraph(graph)
    /\ comp = NoComp
    /\ weight = [a \in Arcs(graph) |-> NoWeight]
    /\ is_failed = [s \in NodeSet(graph) |-> FALSE]
    /\ current_load \in [NodeSet(graph) -> 0..MaxLoad]
    /\ fib = EmptyFib(graph)
    /\ ports = <<>>
    /\ now = 0
    /\ queue = <<>>
    /\ running = NoProc
    /\ update_interval = MonitorInterval
    /\ hist = [op |-> NoOp, lastTick |-> <<>>, read |-> NoRead]
    /\ NoFlow

\* a tick of switch s's monitor whose draw fails the switch
RouteFail(s) ==
    /\ ~is_failed[s]
    /\ Cardinality({t \in NodeSet(graph) : is_failed[t]}) < MaxFailed
    /\ is_failed' = [is_failed EXCEPT ![s] = TRUE]
    /\ hist' = [hist EXCEPT !.op = NoOp]
    /\ UNCHANGED <<graph, weight, current_load, fib, ports, now, queue, running,
                   update_interval, caller_graph, comp, flowVars>>

\* one cycle of RoutingController.run: the weights, then update_all_fibs
RouteCycle ==
    /\ weight' = RunWeights(graph, is_failed, current_load)
    /\ fib' = update_all_fibs(graph, weight', is_failed, fib)
    /\ hist' = [hist EXCEPT !.op = Recomputed]
    /\ UNCHANGED <<graph, is_failed, current_load, ports, now, queue, running,
                   update_interval, caller_graph, comp, flowVars>>

NextRoute ==
    \/ \E s \in NodeSet(graph) : RouteFail(s)
    \/ RouteCycle

SpecRoute == InitRoute /\ [][NextRoute]_vars

\* the state is that left by a recompute
AfterRecompute == hist.op.name = "recompute"

FailedSet == {s \in NodeSet(graph) : is_failed[s]}

\* the least total weight of a path from s to d of at most k edges (Inf if none)
RECURSIVE DistWithin(_, _, _, _, _)
DistWithin(g, w, s, d, k) ==
    IF s = d THEN 0
    ELSE IF k = 0 THEN Inf + 1
    ELSE LET via == {Plus(Cost(w, s, a[2]), DistWithin(g, w, a[2], d, k - 1)) :
                        a \in {b \in Arcs(g) : b[1] = s}}
             reach == {a \in Arcs(g) : a[1] = s /\ DistWithin(g, w, a[2], d, k - 1) <= Inf}
         IN IF reach = {} THEN Inf + 1
            ELSE CHOOSE m \in {Plus(Cost(w, s, a[2]), DistWithin(g, w, a[2], d, k - 1)) :
                                  a \in reach} :
                     \A a \in reach :
                         m <= Plus(Cost(w, s, a[2]), DistWithin(g, w, a[2], d, k - 1))

\* Inf + 1 stands for "no path"
MinDist(g, w, s, d) == DistWithin(g, w, s, d, Len(g.nodes) - 1)

HasPath(g, w, s, d) == MinDist(g, w, s, d) <= Inf

\* C3: after a recompute with exactly one failed node, every edge that ends
\* at the failed node has weight +infinity and the failed node is the next
\* hop of no FIB entry.
C3_FailedNodeAvoided ==
    (AfterRecompute /\ Cardinality(FailedSet) = 1) =>
        \A f \in FailedSet :
            /\ \A a \in Arcs(graph) : a[2] = f => weight[a] = Inf
            /\ \A s \in NodeSet(graph) : \A d \in NodeSet(graph) : fib[s][d] # f

\* C4: after a cycle every edge (u, v) that edges() yields has weight
\* 1 + current_load(v) if v is not failed and +infinity if v is failed, and no
\* failed node is reachable as a destination: dijkstra_path finds no path to
\* it from any other node.
C4_FailedUnreachable ==
    AfterRecompute =>
        /\ \A a \in Arcs(graph) :
              LET v == YieldedHead(graph, a)
              IN weight[a] = IF is_failed[v] THEN Inf
                             ELSE total_buffer_capacity + current_load[v]
        /\ \A f \in FailedSet : \A s \in NodeSet(graph) \ {f} :
              dijkstra_path(graph, weight, s, f) = <<>>

\* C5: after a recompute, for every ordered pair of distinct nodes
\* (source, dest) with a path in the weighted graph and source not failed,
\* FIB[source][dest] is the first hop of a path of least total weight.
C5_FibIsShortestFirstHop ==
    AfterRecompute =>
        \A s \in NodeSet(graph) : \A d \in NodeSet(graph) \ {s} :
            (~is_failed[s] /\ HasPath(graph, weight, s, d)) =>
                /\ <<s, fib[s][d]>> \in Arcs(graph)
                /\ Plus(Cost(weight, s, fib[s][d]),
                        MinDist(graph, weight, fib[s][d], d))
                       = MinDist(graph, weight, s, d)

-----------------------------------------------------------------------------
(* The propagation engine: ReliabilityMath.simulate_traffic_flow            *)

\* amounts (MB/s) are stored as multiples of 1 / Scale MB/s
Scale == 1024 * 21

\* the traffic slider goes from 0 to 3000 MB/s: traffic is 100 * k MB/s
MaxTraffic == 30

TrafficValues == {100 * k * Scale : k \in 0..MaxTraffic}

ThresholdValues == {500 * Scale, 1000 * Scale}

Scenarios == {"Baseline", "ANS Compression", "Dynamic Rerouting", "Full Defense"}

\* "ANS" in scenario_type or "Full" in scenario_type
Compresses(scen) == scen \in {"ANS Compression", "Full Defense"}

\* "Rerouting" in scenario_type or "Full" in scenario_type
Reroutes(scen) == scen \in {"Dynamic Rerouting", "Full Defense"}

\* values of random.uniform(1.2, 2.8), as <<numerator, denominator>>: 1.25, 2.0
\* and 2.5, which the floating-point arithmetic of the engine divides by
\* without rounding
Ratios == {<<5, 4>>, <<2, 1>>, <<5, 2>>}

One == <<1, 1>>

\* a / b, for the amounts of the run (all quotients are whole)
Quot(a, b) == a \div b

\* ANSCompressor.compress: data_size_mb / ratio
compress(data_size_mb, ratio) == Quot(data_size_mb * ratio[2], ratio[1])

\* TopologyManager.get_predefined_topology
NPlus1 ==
    [name  |-> "N+1 Redundancy",
     nodes |-> <<"Server-1", "SwA1", "SwB1", "Sw-Standby", "SwA2", "SwB2", "Storage-1">>,
     edges |-> << <<"Server-1", "SwA1">>, <<"Server-1", "SwB1">>,
                  <<"SwA1", "SwA2">>, <<"SwB1", "SwB2">>,
                  <<"SwA2", "Storage-1">>, <<"SwB2", "Storage-1">>,
                  <<"SwA1", "Sw-Standby">>, <<"SwB1", "Sw-Standby">>,
                  <<"Sw-Standby", "Storage-1">> >>,
     directed |-> TRUE]

FullMesh ==
    [name  |-> "Full Mesh",
     nodes |-> <<"Server-Gen", "Sw1", "Sw2", "Sw3", "Sw4", "Storage-Gen">>,
     edges |-> << <<"Server-Gen", "Sw1">>, <<"Server-Gen", "Sw2">>,
                  <<"Sw1", "Sw3">>, <<"Sw1", "Sw4">>,
                  <<"Sw2", "Sw3">>, <<"Sw2", "Sw4">>,
                  <<"Sw3", "Storage-Gen">>, <<"Sw4", "Storage-Gen">> >>,
     directed |-> TRUE]

FatTree ==
    [name  |-> "Fat-Tree",
     nodes |-> <<"Server-Gen", "Edge1", "Edge2", "Core1", "Core2", "Storage-Gen">>,
     edges |-> << <<"Server-Gen", "Edge1">>, <<"Server-Gen", "Edge2">>,
                  <<"Edge1", "Core1">>, <<"Edge1", "Core2">>,
                  <<"Edge2", "Core1">>, <<"Edge2", "Core2">>,
                  <<"Core1", "Storage-Gen">>, <<"Core2", "Storage-Gen">> >>,
     directed |-> TRUE]

Ring ==
    [name  |-> "Ring Topology",
     nodes |-> <<"Server-Gen", "Sw1", "Sw2", "Sw3", "Sw4", "Storage-Gen">>,
     edges |-> << <<"Server-Gen", "Sw1">>,
                  <<"Sw1", "Sw2">>, <<"Sw2", "Sw3">>, <<"Sw3", "Sw4">>, <<"Sw4", "Sw1">>,
                  <<"Sw3", "Storage-Gen">> >>,
     directed |-> TRUE]

\* TopologyManager.build_custom_topology: a server feeding two switches, one
\* of which also feeds the other (Switch-A has predecessors at two depths)
Custom ==
    [name  |-> "Custom Builder",
     nodes |-> <<"Server-0", "Switch-A", "Switch-B", "Storage-0">>,
     edges |-> << <<"Server-0", "Switch-A">>, <<"Server-0", "Switch-B">>,
                  <<"Switch-B", "Switch-A">>, <<"Switch-A", "Storage-0">> >>,
     directed |-> TRUE]

Topologies == {NPlus1, FullMesh, FatTree, Ring, Custom}

\* "Server" in n, "Storage" in n
IsServer(n) == n \in {"Server-1", "Server-Gen", "Server-0"}

IsStorage(n) == n \in {"Storage-1", "Storage-Gen", "Storage-0"}

Edges(g) == SeqToSet(g.edges)

\* node_status and edge_flows as the engine initialises them
InitStatus(g) ==
    [n \in NodeSet(g) |-> [load |-> 0, state |-> "Idle", capacity |-> "threshold"]]

InitFlows(g) == [e \in Edges(g) |-> 0]

\* (mutant) the traffic is compressed but the ratio reported stays 1.0
CompressionUnreported(raw, scen, ratio) ==
    IF Compresses(scen)
    THEN [traffic |-> compress(raw, ratio), comp_ratio |-> One,
          logs |-> <<[kind |-> "ANS Active", node |-> None,
                      amount |-> compress(raw, ratio)]>>]
    ELSE [traffic |-> raw, comp_ratio |-> One, logs |-> <<>>]

\* the compression step shared by both engines: the traffic sent, the ratio
\* reported and the log
Compression(raw, scen, ratio) ==
    IF Compresses(scen)
    THEN [traffic |-> compress(raw, ratio), comp_ratio |-> ratio,
          logs |-> <<[kind |-> "ANS Active", node |-> None,
                      amount |-> compress(raw, ratio)]>>]
    ELSE [traffic |-> raw, comp_ratio |-> One, logs |-> <<>>]

\* (mutant) the primary path takes the whole threshold, without the 0.95
FlowMainWhole(thr) == thr

\* flow_main = threshold * 0.95
FlowMain(thr) == Quot(thr * 19, 20)

\* N+1: the body of "for sw in ['SwA1', 'SwB1']"
FirstLayer(st, sw, thr, scen) ==
    LET load == st.node_status[sw].load
        over == load > thr
        flow_main == IF over THEN (IF Reroutes(scen) THEN FlowMain(thr) ELSE 0)
                     ELSE load
        flow_standby == IF over /\ Reroutes(scen) THEN load - flow_main ELSE 0
        state == IF over THEN (IF Reroutes(scen) THEN "Rerouted" ELSE "Failure")
                 ELSE "Safe"
        logs == IF ~over THEN st.logs
                ELSE IF Reroutes(scen)
                THEN Append(st.logs, [kind |-> "Reroute", node |-> sw,
                                      amount |-> flow_standby])
                ELSE Append(st.logs, [kind |-> "FAILURE", node |-> sw, amount |-> 0])
        target == IF sw = "SwA1" THEN "SwA2" ELSE "SwB2"
        ns1 == [st.node_status EXCEPT ![sw].state = state,
                                      ![target].load = @ + flow_main]
        ef1 == [st.edge_flows EXCEPT ![<<sw, target>>] = flow_main]
    IN IF flow_standby > 0
       THEN [node_status |-> [ns1 EXCEPT !["Sw-Standby"].load = @ + flow_standby,
                                         !["Sw-Standby"].state = "Active"],
             edge_flows |-> [ef1 EXCEPT ![<<sw, "Sw-Standby">>] = flow_standby],
             logs |-> logs]
       ELSE [node_status |-> ns1, edge_flows |-> ef1, logs |-> logs]

\* (mutant) the standby keeps what it received: nothing goes on to the sink
StandbyLayerIdle(st) == st

\* N+1: the standby forwards whatever it received
StandbyLayer(st) ==
    LET s_load == st.node_status["Sw-Standby"].load
    IN IF s_load > 0
       THEN [st EXCEPT !.edge_flows[<<"Sw-Standby", "Storage-1">>] = s_load,
                       !.node_status["Storage-1"].load = @ + s_load]
       ELSE st

\* (mutant) the second layer overloads above threshold * 0.95
SecondLayerSafetyFactor(st, sw, thr) ==
    LET load == st.node_status[sw].load
    IN IF load > 0
       THEN IF load > FlowMain(thr)
            THEN [st EXCEPT !.node_status[sw].state = "Overload",
                            !.edge_flows[<<sw, "Storage-1">>] = 0]
            ELSE [st EXCEPT !.node_status[sw].state = "Safe",
                            !.edge_flows[<<sw, "Storage-1">>] = load,
                            !.node_status["Storage-1"].load = @ + load]
       ELSE st

\* N+1: the body of "for sw in ['SwA2', 'SwB2']"
SecondLayer(st, sw, thr) ==
    LET load == st.node_status[sw].load
    IN IF load > 0
       THEN IF load > thr
            THEN [st EXCEPT !.node_status[sw].state = "Overload",
                            !.edge_flows[<<sw, "Storage-1">>] = 0]
            ELSE [st EXCEPT !.node_status[sw].state = "Safe",
                            !.edge_flows[<<sw, "Storage-1">>] = load,
                            !.node_status["Storage-1"].load = @ + load]
       ELSE st

\* simulate_traffic_flow, the N+1 special logic
simulate_n_plus_1(g, raw, scen, thr, ratio) ==
    LET c == Compression(raw, scen, ratio)
        load_A == Quot(c.traffic * 3, 5)
        load_B == Quot(c.traffic * 2, 5)
        ns0 == [InitStatus(g) EXCEPT
                   !["Server-1"] = [load |-> c.traffic, state |-> "OK",
                                    capacity |-> "Source"],
                   !["Storage-1"].capacity = "Sink",
                   !["SwA1"].load = load_A,
                   !["SwB1"].load = load_B]
        ef0 == [InitFlows(g) EXCEPT ![<<"Server-1", "SwA1">>] = load_A,
                                    ![<<"Server-1", "SwB1">>] = load_B]
        st0 == [node_status |-> ns0, edge_flows |-> ef0, logs |-> c.logs]
        st1 == FirstLayer(st0, "SwA1", thr, scen)
        st2 == FirstLayer(st1, "SwB1", thr, scen)
        st3 == StandbyLayer(st2)
        st4 == SecondLayer(st3, "SwA2", thr)
        st5 == SecondLayer(st4, "SwB2", thr)
    IN [done |-> TRUE,
        node_status |-> [st5.node_status EXCEPT !["Storage-1"].state = "Online"],
        logs |-> st5.logs,
        comp_ratio |-> c.comp_ratio,
        edge_flows |-> st5.edge_flows,
        steps |-> 0]

\* max_steps = len(G.nodes()) * 3
StepsPerNode == 3

\* (mutant) a capped switch passes threshold * 0.95 instead of the threshold
PassLoadBelowCap(load_in, thr, scen) ==
    IF load_in > thr THEN (IF Reroutes(scen) THEN FlowMain(thr) ELSE 0) ELSE load_in

\* generic: the load a switch passes on
PassLoad(load_in, thr, scen) ==
    IF load_in > thr THEN (IF Reroutes(scen) THEN thr ELSE 0) ELSE load_in

\* generic: the status and log of the node popped
Visit(st, current, thr, scen) ==
    LET load_in == st.node_status[current].load
    IN IF ~IsServer(current) /\ ~IsStorage(current)
       THEN IF load_in > thr
            THEN IF Reroutes(scen)
                 THEN [st EXCEPT !.node_status[current].state = "Capped/Rerouted",
                                 !.logs = Append(@, [kind |-> "capped", node |-> current,
                                                     amount |-> thr])]
                 ELSE [st EXCEPT !.node_status[current].state = "Crashed",
                                 !.logs = Append(@, [kind |-> "CRASHED", node |-> current,
                                                     amount |-> 0])]
            ELSE [st EXCEPT !.node_status[current].state = "Safe"]
       ELSE IF IsStorage(current)
            THEN [st EXCEPT !.node_status[current].state = "Sink",
                            !.node_status[current].capacity = "Sink"]
            ELSE st

\* generic: the loop over the neighbours
RECURSIVE Forward(_, _, _, _)
Forward(st, current, nbrs, out_per_link) ==
    IF nbrs = <<>> THEN st
    ELSE LET nbr == Head(nbrs)
         IN Forward([st EXCEPT !.edge_flows[<<current, nbr>>] = out_per_link,
                               !.node_status[nbr].load = @ + out_per_link,
                               !.queue = IF nbr \in SeqToSet(@) THEN @
                                         ELSE Append(@, nbr)],
                    current, Tail(nbrs), out_per_link)

\* generic: one iteration of "while queue and steps < max_steps"
FlowStep(g, st, thr, scen) ==
    LET current == Head(st.queue)
        load_in == st.node_status[current].load
        pass_load == IF ~IsServer(current) /\ ~IsStorage(current)
                     THEN PassLoad(load_in, thr, scen)
                     ELSE load_in
        popped == [Visit(st, current, thr, scen) EXCEPT !.queue = Tail(st.queue)]
        neighbors == Adj(g, current)
    IN IF neighbors = <<>> THEN popped
       ELSE LET sent == IF pass_load > 0
                        THEN Forward(popped, current, neighbors,
                                     Quot(pass_load, Len(neighbors)))
                        ELSE popped
            IN [sent EXCEPT !.steps = @ + 1]

\* (mutant) the loop runs while steps <= max_steps
RECURSIVE FlowLoopOneMore(_, _, _, _)
FlowLoopOneMore(g, st, thr, scen) ==
    IF st.queue = <<>> \/ st.steps > Len(g.nodes) * StepsPerNode THEN st
    ELSE CHOOSE r \in {FlowLoopOneMore(g, nxt, thr, scen) :
                          nxt \in {FlowStep(g, st, thr, scen)}} : TRUE

\* generic: while queue and steps < max_steps
RECURSIVE FlowLoop(_, _, _, _)
FlowLoop(g, st, thr, scen) ==
    IF st.queue = <<>> \/ st.steps >= Len(g.nodes) * StepsPerNode THEN st
    ELSE CHOOSE r \in {FlowLoop(g, nxt, thr, scen) :
                          nxt \in {FlowStep(g, st, thr, scen)}} : TRUE

\* [n for n in G.nodes() if "Server" in n], in node order
Sources(g) == SelectSeq(g.nodes, IsServer)

\* simulate_generic_flow
simulate_generic_flow(g, raw, thr, scen, ratio) ==
    LET sources == Sources(g)
        c == Compression(raw, scen, ratio)
        per_server == Quot(c.traffic, Len(sources))
        ns0 == [n \in NodeSet(g) |->
                  IF IsServer(n)
                  THEN [load |-> per_server, state |-> "Source", capacity |-> "Source"]
                  ELSE InitStatus(g)[n]]
        st0 == [node_status |-> ns0, edge_flows |-> InitFlows(g), logs |-> c.logs,
                queue |-> sources, steps |-> 0]
        fin == FlowLoop(g, st0, thr, scen)
    IN IF sources = <<>>
       THEN [done |-> TRUE, node_status |-> InitStatus(g),
             logs |-> <<[kind |-> "No Server nodes found", node |-> None, amount |-> 0]>>,
             comp_ratio |-> One, edge_flows |-> InitFlows(g), steps |-> 0]
       ELSE [done |-> TRUE, node_status |-> fin.node_status, logs |-> fin.logs,
             comp_ratio |-> c.comp_ratio, edge_flows |-> fin.edge_flows,
             steps |-> fin.steps]

InitFlow ==
    /\ custom = NoCustom
    /\ G \in Topologies
    /\ raw_traffic \in TrafficValues
    /\ threshold \in ThresholdValues
    /\ scenario_type \in Scenarios
    /\ ratio_draw \in IF Compresses(scenario_type) THEN Ratios ELSE {One}
    /\ result = NoResult
    /\ previous = NoPrevious
    /\ graph = DesGraph
    /\ caller_graph = PassedGraph(DesGraph)
    /\ comp = NoComp
    /\ weight = [a \in Arcs(DesGraph) |-> NoWeight]
    /\ is_failed = [s \in Switches |-> FALSE]
    /\ current_load = [s \in Switches |-> 0]
    /\ fib = EmptyFib(DesGraph)
    /\ ports = <<>>
    /\ now = 0
    /\ queue = <<>>
    /\ running = NoProc
    /\ update_interval = MonitorInterval
    /\ hist = [op |-> NoOp, lastTick |-> <<>>, read |-> NoRead]

\* simulate_traffic_flow on a topology with 'Server-1': the N+1 logic
SimulateNPlus1 ==
    /\ ~result.done
    /\ "Server-1" \in NodeSet(G)
    /\ result' = simulate_n_plus_1(G, raw_traffic, scenario_type, threshold, ratio_draw)
    /\ UNCHANGED <<desVars, custom, G, raw_traffic, threshold, scenario_type,
                   ratio_draw, previous>>

\* simulate_traffic_flow on any other topology: delegated to the generic flow
SimulateGeneric ==
    /\ ~result.done
    /\ "Server-1" \notin NodeSet(G)
    /\ result' = simulate_generic_flow(G, raw_traffic, threshold, scenario_type,
                                       ratio_draw)
    /\ UNCHANGED <<desVars, custom, G, raw_traffic, threshold, scenario_type,
                   ratio_draw, previous>>

\* simulate_traffic_flow: the N+1 logic, or the generic flow when the
\* topology has no 'Server-1'
simulate_traffic_flow(g, raw, scen, thr, ratio) ==
    IF "Server-1" \notin NodeSet(g)
    THEN simulate_generic_flow(g, raw, thr, scen, ratio)
    ELSE simulate_n_plus_1(g, raw, scen, thr, ratio)

\* the caller raises the traffic to t and calls the engine again on the same
\* topology, scenario and threshold, with the same draw
SimulateAgain(t) ==
    /\ result.done
    /\ ~previous.done
    /\ t >= raw_traffic
    /\ previous' = [done |-> TRUE, raw_traffic |-> raw_traffic, snapshot |-> result]
    /\ raw_traffic' = t
    /\ result' = simulate_traffic_flow(G, t, scenario_type, threshold, ratio_draw)
    /\ UNCHANGED <<desVars, custom, G, threshold, scenario_type, ratio_draw>>

NextFlow ==
    \/ SimulateNPlus1
    \/ SimulateGeneric
    \/ \E t \in TrafficValues : SimulateAgain(t)

SpecFlow == InitFlow /\ [][NextFlow]_vars

-----------------------------------------------------------------------------
(* Claims about the propagation engine (checked under SpecFlow)             *)

\* the role test the engine applies: neither a server nor a storage
IsSwitch(n) == ~IsServer(n) /\ ~IsStorage(n)

RECURSIVE SumFlows(_, _)
SumFlows(flows, es) ==
    IF es = {} THEN 0
    ELSE LET e == CHOOSE x \in es : TRUE
         IN flows[e] + SumFlows(flows, es \ {e})

\* total flow on the edges leaving n / entering n
OutFlow(n) == SumFlows(result.edge_flows, {e \in Edges(G) : e[1] = n})

InFlow(n) == SumFlows(result.edge_flows, {e \in Edges(G) : e[2] = n})

\* C8: after a propagation cycle the total flow leaving any switch-role node
\* is at most threshold * 0.95 when rerouting is enabled and at most threshold
\* when it is disabled, in the N+1 and in the generic propagation.
C8_OutFlowBounded ==
    result.done =>
        \A n \in NodeSet(G) :
            IsSwitch(n) =>
                OutFlow(n) <= (IF Reroutes(scenario_type) THEN FlowMain(threshold)
                               ELSE threshold)

\* C9: after a propagation cycle, for every node whose status is Safe the sum
\* of the flows on its outgoing edges equals its accumulated incoming load, on
\* every topology the engine accepts.
C9_SafeConserves ==
    result.done =>
        \A n \in NodeSet(G) :
            result.node_status[n].state = "Safe" =>
                OutFlow(n) = result.node_status[n].load

\* the statuses the engines give a switch that went over the threshold with
\* rerouting disabled
FailedStates == {"Failure", "Overload", "Crashed"}

\* C10: with rerouting disabled, a switch whose load exceeds the threshold
\* ends the cycle failed with flow 0 on every outgoing edge, while a switch at
\* or below the threshold that received load stays Safe and forwards its full
\* load.
C10_OverloadedForwardsNothing ==
    (result.done /\ ~Reroutes(scenario_type)) =>
        \A n \in NodeSet(G) :
            IsSwitch(n) =>
                LET load == result.node_status[n].load
                IN /\ load > threshold =>
                        /\ result.node_status[n].state \in FailedStates
                        /\ \A e \in Edges(G) : e[1] = n => result.edge_flows[e] = 0
                   /\ (load > 0 /\ load <= threshold) =>
                        /\ result.node_status[n].state = "Safe"
                        /\ OutFlow(n) = load

\* the redundant neighbour the engine sends a switch's excess to: the N+1
\* logic names Sw-Standby for SwA1 and SwB1; the generic propagation names none
HasRedundantNeighbor(n) == <<n, "Sw-Standby">> \in Edges(G)

\* the primary edge of a first-layer switch of the N+1 fabric
PrimaryEdge(n) == <<n, IF n = "SwA1" THEN "SwA2" ELSE "SwB2">>

\* C11: with rerouting enabled, a switch over the threshold that has a
\* redundant neighbour ends the cycle Rerouted, its primary edge carries
\* exactly threshold * 0.95, the excess (load - threshold * 0.95) is the flow
\* into the redundant neighbour, and the two flows add up to the load.
C11_ReroutedSplitsLoad ==
    (result.done /\ Reroutes(scenario_type)) =>
        \A n \in NodeSet(G) :
            (IsSwitch(n) /\ HasRedundantNeighbor(n)
                /\ result.node_status[n].load > threshold) =>
                LET load == result.node_status[n].load
                    primary == result.edge_flows[PrimaryEdge(n)]
                    rerouted == result.edge_flows[<<n, "Sw-Standby">>]
                IN /\ result.node_status[n].state = "Rerouted"
                   /\ 20 * primary = 19 * threshold
                   /\ 20 * rerouted = 20 * load - 19 * threshold
                   /\ primary + rerouted = load
                   /\ OutFlow(n) = load

\* scenario E3: 1800 MB/s at threshold 1000 with rerouting, SwA1 (1080) is
\* Rerouted with 950 on its primary edge and 130 into the standby
C11_Witness ==
    /\ result.done
    /\ G = NPlus1
    /\ scenario_type = "Dynamic Rerouting"
    /\ raw_traffic = 1800 * Scale
    /\ threshold = 1000 * Scale
    /\ result.node_status["SwA1"].state = "Rerouted"
    /\ result.edge_flows[<<"SwA1", "SwA2">>] = 950 * Scale
    /\ result.edge_flows[<<"SwA1", "Sw-Standby">>] = 130 * Scale
    /\ result.node_status["SwB1"].state = "Safe"

\* C12: with rerouting enabled, the excess of an overloaded switch goes to the
\* redundant neighbour only while that neighbour is below the threshold, and
\* the switch fails otherwise, so the standby's load never exceeds the
\* threshold as a result of rerouting.
C12_StandbyWithinThreshold ==
    (result.done /\ Reroutes(scenario_type) /\ "Sw-Standby" \in NodeSet(G)) =>
        result.node_status["Sw-Standby"].load <= threshold

\* C13: after a propagation cycle no switch-role node, the standby included,
\* carries more than the threshold on any single outgoing edge (sources and
\* sinks have no threshold).
C13_EdgeWithinThreshold ==
    result.done =>
        \A e \in Edges(G) :
            IsSwitch(e[1]) => result.edge_flows[e] <= threshold

\* the nodes a flow leaving m can reach, m included
RECURSIVE ReachFrom(_, _)
ReachFrom(g, seen) ==
    LET more == seen \cup {e[2] : e \in {x \in Arcs(g) : x[1] \in seen}}
    IN IF more = seen THEN seen ELSE ReachFrom(g, more)

Reach(g, m) == ReachFrom(g, {m})

\* the nodes downstream of the sources
Downstream(g) ==
    {n \in NodeSet(g) : ~IsServer(n) /\ \E src \in NodeSet(g) :
                                           IsServer(src) /\ n \in Reach(g, src)}

\* some switch on a branch feeding n ended the last call in one of the states
SwitchFeeding(n, states) ==
    \E m \in NodeSet(G) :
        /\ IsSwitch(m)
        /\ n \in Reach(G, m)
        /\ result.node_status[m].state \in states

\* C15: for a fixed topology, scenario and threshold and traffic T1 <= T2,
\* every reachable downstream node has under T2 at least the load it had
\* under T1, unless a node on the branch feeding it has failed under T2.
C15_LoadMonotone ==
    previous.done =>
        \A n \in Downstream(G) :
            \/ result.node_status[n].load >= previous.snapshot.node_status[n].load
            \/ SwitchFeeding(n, FailedStates)

\* C15 as amended: ... unless a node on the branch feeding it has failed or
\* has been rerouted under T2 (a Rerouted switch cuts its primary flow from
\* its load to threshold * 0.95).
C15_LoadMonotoneUnlessRerouted ==
    previous.done =>
        \A n \in Downstream(G) :
            \/ result.node_status[n].load >= previous.snapshot.node_status[n].load
            \/ SwitchFeeding(n, FailedStates \cup {"Rerouted"})

\* the traffic was raised from 800 to 900 MB/s at threshold 500 with
\* rerouting: SwA1 went from Safe (480) to Rerouted (540) and SwA2's load
\* fell from 480 to 475, while SwB2's load rose
C15_Witness ==
    /\ previous.done
    /\ G = NPlus1
    /\ previous.raw_traffic < raw_traffic
    /\ previous.snapshot.node_status["SwA1"].state = "Safe"
    /\ result.node_status["SwA1"].state = "Rerouted"
    /\ result.node_status["SwA2"].load < previous.snapshot.node_status["SwA2"].load
    /\ result.node_status["SwB2"].load > previous.snapshot.node_status["SwB2"].load

RECURSIVE SumLoads(_, _)
SumLoads(status, ns) ==
    IF ns = {} THEN 0
    ELSE LET n == CHOOSE x \in ns : TRUE
         IN status[n].load + SumLoads(status, ns \ {n})

ServerNodes(g) == {n \in NodeSet(g) : IsServer(n)}

\* C16: one ratio per cycle: it is the draw, within [1.2, 2.8], when
\* compression is enabled and 1.0 when it is disabled; the traffic injected at
\* the sources, and the flow on the edges leaving them, is the raw traffic
\* divided by the ratio the snapshot reports (in the N+1 fabric both the 60%
\* and the 40% path use it).
C16_OneRatioApplied ==
    result.done =>
        LET r == result.comp_ratio
            injected == SumLoads(result.node_status, ServerNodes(G))
        IN /\ r = (IF Compresses(scenario_type) THEN ratio_draw ELSE One)
           /\ Compresses(scenario_type) => (5 * r[1] >= 6 * r[2] /\ 5 * r[1] <= 14 * r[2])
           /\ injected * r[1] = raw_traffic * r[2]
           /\ \A n \in ServerNodes(G) : OutFlow(n) = result.node_status[n].load
           /\ G = NPlus1 =>
                /\ 5 * r[1] * result.edge_flows[<<"Server-1", "SwA1">>]
                        = 3 * r[2] * raw_traffic
                /\ 5 * r[1] * result.edge_flows[<<"Server-1", "SwB1">>]
                        = 2 * r[2] * raw_traffic

\* 2000 MB/s compressed by the draw 2.5: 800 MB/s enter the N+1 fabric, 480 on
\* one path and 320 on the other, and the snapshot reports 2.5
C16_Witness ==
    /\ result.done
    /\ G = NPlus1
    /\ scenario_type = "ANS Compression"
    /\ raw_traffic = 2000 * Scale
    /\ ratio_draw = <<5, 2>>
    /\ result.comp_ratio = <<5, 2>>
    /\ result.node_status["Server-1"].load = 800 * Scale
    /\ result.edge_flows[<<"Server-1", "SwA1">>] = 480 * Scale
    /\ result.edge_flows[<<"Server-1", "SwB1">>] = 320 * Scale

\* the statuses of a switch that went over the threshold
OverStates == FailedStates \cup {"Rerouted", "Capped/Rerouted"}

\* C17: with no defense enabled and no switch's load above the threshold, no
\* node is Failed, Overloaded or Rerouted, every switch that carries load is
\* Safe, no failure or reroute event is logged, and the ratio reported is 1.0.
C17_QuietFabricStaysSafe ==
    (/\ result.done
     /\ scenario_type = "Baseline"
     /\ \A n \in NodeSet(G) : IsSwitch(n) => result.node_status[n].load <= threshold) =>
        /\ \A n \in NodeSet(G) :
              /\ result.node_status[n].state \notin OverStates
              /\ (IsSwitch(n) /\ result.node_status[n].load > 0) =>
                     result.node_status[n].state = "Safe"
        /\ result.logs = <<>>
        /\ result.comp_ratio = One

\* scenario E1: 200 MB/s into the N+1 fabric at threshold 1000, no defenses
C17_Witness ==
    /\ result.done
    /\ G = NPlus1
    /\ scenario_type = "Baseline"
    /\ raw_traffic = 200 * Scale
    /\ threshold = 1000 * Scale
    /\ \A n \in {"SwA1", "SwB1", "SwA2", "SwB2"} : result.node_status[n].state = "Safe"
    /\ result.node_status["Storage-1"].load = 200 * Scale
    /\ result.logs = <<>>
    /\ result.comp_ratio = One

-----------------------------------------------------------------------------
(* Claims about the FIBs over several cycles (checked under SpecRoute)      *)

\* C18: each recompute fully replaces every node's FIB: after it, every FIB
\* holds exactly the entries this recompute derives from its weighted graph,
\* and nothing written by an earlier cycle.
C18_FibFullyReplaced ==
    AfterRecompute =>
        fib = update_all_fibs(graph, weight, is_failed, EmptyFib(graph))

\* C19: a pair without a path is skipped without an error: after a recompute
\* the FIB of s has no entry for d when there is no path from s to d, every
\* other pair of the cycle is still processed (a switch that is not failed has
\* an entry for every destination it has a path to), and later cycles run.
C19_NoPathSkipped ==
    AfterRecompute =>
        \A s \in NodeSet(graph) : \A d \in NodeSet(graph) \ {s} :
            /\ d \notin Reach(graph, s) => fib[s][d] = None
            /\ (d \in Reach(graph, s) /\ ~is_failed[s]) => fib[s][d] # None

\* a second cycle on the chain SW3 -> SW2 -> SW1, run after SW2 failed (the
\* edge into SW2 weighs +infinity): the pairs from SW1 were skipped again, SW3
\* has its entries, and SW2 keeps the entry of the first cycle
C19_Witness ==
    /\ AfterRecompute
    /\ graph = BackChainGraph
    /\ is_failed["SW2"]
    /\ weight[<<"SW3", "SW2">>] = Inf
    /\ fib["SW1"]["SW2"] = None
    /\ fib["SW1"]["SW3"] = None
    /\ fib["SW3"]["SW1"] = "SW2"
    /\ fib["SW2"]["SW1"] = "SW1"

-----------------------------------------------------------------------------
(* Claims about the monitor's failure decision (checked under Spec)         *)

\* C20: when a monitor makes its draw, the load whose failure rate the draw is
\* compared against is the occupancy of the switch's ports at that same tick:
\* current_load was re-read at the current time, never left from an earlier
\* tick.
C20_DrawUsesLoadOfTick ==
    \A s \in Switches :
        running = Monitor(s) =>
            /\ hist.lastTick[s] = now
            /\ current_load[s] = Occupancy(ports[s])

\* a monitor about to draw at a later tick, on a load that is no longer the 0
\* of its first tick
C20_Witness ==
    \E s \in Switches :
        /\ running = Monitor(s)
        /\ now > 0
        /\ Occupancy(ports[s]) > 0
        /\ current_load[s] = Occupancy(ports[s])

-----------------------------------------------------------------------------
(* The caller's run: the topology is built from the mode chosen (for the    *)
(* custom builder, from the node and edge lists of the session), then       *)
(* handed to simulate_traffic_flow with the traffic and the threshold the   *)
(* caller passes.  Neither the lists nor the numbers are restricted to the  *)
(* values the dashboard's widgets produce.                                  *)

\* the topology is not built yet
NoGraph == [name |-> "None", nodes |-> <<>>, edges |-> <<>>, directed |-> TRUE]

Built == G.name # "None"

\* G.add_nodes_from: a node already in the graph is not added again
RECURSIVE add_nodes_from(_, _)
add_nodes_from(nodes, node_list) ==
    IF node_list = <<>> THEN nodes
    ELSE add_nodes_from(IF Head(node_list) \in SeqToSet(nodes) THEN nodes
                        ELSE Append(nodes, Head(node_list)),
                        Tail(node_list))

\* G.add_edges_from: the end points of an edge are added when they are new
RECURSIVE add_edges_from(_, _)
add_edges_from(g, edge_list) ==
    IF edge_list = <<>> THEN g
    ELSE LET e == Head(edge_list)
         IN add_edges_from([g EXCEPT !.nodes = add_nodes_from(@, e),
                                     !.edges = IF e \in SeqToSet(@) THEN @
                                               ELSE Append(@, e)],
                           Tail(edge_list))

\* TopologyManager.build_custom_topology
build_custom_topology(node_list, edge_list) ==
    add_edges_from([name |-> "Custom Builder",
                    nodes |-> add_nodes_from(<<>>, node_list),
                    edges |-> <<>>,
                    directed |-> TRUE],
                   edge_list)

Predefined == {NPlus1, FullMesh, FatTree, Ring}

\* TopologyManager.get_predefined_topology
get_predefined_topology(type_name) == CHOOSE t \in Predefined : t.name = type_name

\* node and edge lists of the custom builder: the topology Custom, one with
\* no Server, one with no Storage, one whose edges name a node (Switch-A)
\* that is not in the node list, and the lists of a new session
CustomLists ==
    {[custom_nodes |-> Custom.nodes, custom_edges |-> Custom.edges],
     [custom_nodes |-> <<"Switch-A", "Storage-0">>,
      custom_edges |-> << <<"Switch-A", "Storage-0">> >>],
     [custom_nodes |-> <<"Server-0", "Switch-A">>,
      custom_edges |-> << <<"Server-0", "Switch-A">> >>],
     [custom_nodes |-> <<"Server-0", "Storage-0">>,
      custom_edges |-> << <<"Server-0", "Switch-A">>, <<"Switch-A", "Storage-0">> >>],
     [custom_nodes |-> <<>>, custom_edges |-> <<>>]}

Choices ==
    {[mode |-> "Custom Builder", custom_nodes |-> c.custom_nodes,
      custom_edges |-> c.custom_edges] : c \in CustomLists}
    \cup {[mode |-> t.name, custom_nodes |-> <<>>, custom_edges |-> <<>>] :
             t \in Predefined}

\* traffic and threshold as the engine's signature admits them: any number
TrafficInputs == {100 * k * Scale : k \in (0 - MaxTraffic)..MaxTraffic}

ThresholdInputs == ThresholdValues \cup {0, 0 - 500 * Scale}

InitInput ==
    /\ custom \in Choices
    /\ G = NoGraph
    /\ raw_traffic \in TrafficInputs
    /\ threshold \in ThresholdInputs
    /\ scenario_type \in Scenarios
    /\ ratio_draw \in IF Compresses(scenario_type) THEN Ratios ELSE {One}
    /\ result = NoResult
    /\ previous = NoPrevious
    /\ graph = DesGraph
    /\ caller_graph = PassedGraph(DesGraph)
    /\ comp = NoComp
    /\ weight = [a \in Arcs(DesGraph) |-> NoWeight]
    /\ is_failed = [s \in Switches |-> FALSE]
    /\ current_load = [s \in Switches |-> 0]
    /\ fib = EmptyFib(DesGraph)
    /\ ports = <<>>
    /\ now = 0
    /\ queue = <<>>
    /\ running = NoProc
    /\ update_interval = MonitorInterval
    /\ hist = [op |-> NoOp, lastTick |-> <<>>, read |-> NoRead]

\* mode == "Custom Builder": G is built from the lists of the session
BuildCustom ==
    /\ ~Built
    /\ custom.mode = "Custom Builder"
    /\ G' = build_custom_topology(custom.custom_nodes, custom.custom_edges)
    /\ UNCHANGED <<desVars, custom, raw_traffic, threshold, scenario_type,
                   ratio_draw, result, previous>>

\* any other mode: G is the predefined topology of that name
BuildPredefined ==
    /\ ~Built
    /\ custom.mode # "Custom Builder"
    /\ G' = get_predefined_topology(custom.mode)
    /\ UNCHANGED <<desVars, custom, raw_traffic, threshold, scenario_type,
                   ratio_draw, result, previous>>

\* the call of simulate_traffic_flow on the topology built
RunEngine ==
    /\ Built
    /\ ~result.done
    /\ result' = simulate_traffic_flow(G, raw_traffic, scenario_type, threshold,
                                       ratio_draw)
    /\ UNCHANGED <<desVars, custom, G, raw_traffic, threshold, scenario_type,
                   ratio_draw, previous>>

NextInput ==
    \/ BuildCustom
    \/ BuildPredefined
    \/ RunEngine

SpecInput == InitInput /\ [][NextInput]_vars

\* the lists name no Server, no Storage, or an edge end that is no node
Malformed(c) ==
    /\ c.mode = "Custom Builder"
    /\ \/ ~\E n \in SeqToSet(c.custom_nodes) : IsServer(n)
       \/ ~\E n \in SeqToSet(c.custom_nodes) : IsStorage(n)
       \/ \E e \in SeqToSet(c.custom_edges) :
             e[1] \notin SeqToSet(c.custom_nodes) \/ e[2] \notin SeqToSet(c.custom_nodes)

\* C21: a topology with no Source node, no Sink node, or an edge that names
\* a node that does not exist is rejected at construction: no graph is built
\* from it and no propagation is run on it.
C21_MalformedRejected == Malformed(custom) => ~Built /\ ~result.done

\* C22: negative traffic and a non-positive threshold are rejected before the
\* run: for such input the engine returns no loads, no flows, no statuses
\* and no log entries.
C22_InvalidInputRejected ==
    (result.done /\ (raw_traffic < 0 \/ threshold <= 0)) =>
        /\ result.logs = <<>>
        /\ \A n \in NodeSet(G) : /\ result.node_status[n].load = 0
                                 /\ result.node_status[n].state = "Idle"
        /\ \A e \in Edges(G) : result.edge_flows[e] = 0

-----------------------------------------------------------------------------
\* C23: the topology is never mutated by failures or by the controller: every
\* step of the run (monitor ticks and failures, puts, transmissions,
\* controller cycles) leaves the caller's graph as it was passed, with its
\* nodes, edges and edge attributes, and leaves the node and edge sets of the
\* controller's own copy unchanged; a controller step changes only the
\* weights of the copy and the FIBs.
C23_TopologyNotMutated ==
    [][/\ caller_graph' = caller_graph
       /\ graph' = graph
       /\ graph = caller_graph.topology
       /\ running = Controller \/ running' = Controller =>
             /\ is_failed' = is_failed
             /\ current_load' = current_load
             /\ ports' = ports
             /\ UNCHANGED flowVars]_vars

\* a switch has failed and a controller cycle has put an infinite weight on
\* an edge of its copy, and has written FIBs
C23_Witness ==
    /\ \E a \in Arcs(graph) : weight[a] = Inf /\ caller_graph.weight[a] = NoWeight
    /\ \E s \in Switches : is_failed[s]
    /\ fib # EmptyFib(graph)
    /\ running = NoProc

-----------------------------------------------------------------------------
\* the Storage nodes of the topology
SinkNodes(g) == {n \in NodeSet(g) : IsStorage(n)}

\* C24: after a propagation cycle the load of every sink equals the sum of
\* the flows on its incoming edges.
C24_SinkLoadIsInFlow ==
    result.done => \A n \in SinkNodes(G) : result.node_status[n].load = InFlow(n)

-----------------------------------------------------------------------------
\* the call was delegated to simulate_generic_flow
Generic(g) == "Server-1" \notin NodeSet(g)

\* max_steps = len(G.nodes()) * 3
max_steps(g) == Len(g.nodes) * StepsPerNode

\* C25: simulate_generic_flow terminates on every topology, cyclic ones
\* included, after at most 3 * |nodes| forwarding steps: the snapshot it
\* returns was produced by no more than max_steps steps.
C25_StepsBounded ==
    (result.done /\ Generic(G)) => result.steps <= max_steps(G)

\* the Ring topology: the loop was cut off at max_steps with traffic still
\* circulating (the cycle Sw1 -> Sw2 -> Sw3 -> Sw4 -> Sw1 carries flow)
C25_Witness ==
    /\ result.done
    /\ G = Ring
    /\ result.steps = max_steps(G)
    /\ result.edge_flows[<<"Sw4", "Sw1">>] > 0

-----------------------------------------------------------------------------
\* the state is that left by the draw of a monitor tick
AfterDraw == hist.op.name = "draw"

\* C26: at a monitor tick a non-failed switch fails exactly when the draw is
\* below its failure rate; the rate is (1 / base_mttf) * e^(alpha * load),
\* which is 1 / base_mttf at load 0; the rate does not decrease with the
\* load, and the draw that fails the switch at the load of the tick fails it
\* at every larger load.
C26_FailsBelowRate ==
    AfterDraw =>
        LET s == hist.op.sw
            r == hist.op.draw
            L == hist.op.load
        IN /\ is_failed[s] <=> r < FailureDraws(L)
           /\ FailureDraws(L) = Min(Pow2(L), RandRes)
           /\ FailureDraws(0) = 1
           /\ \A L2 \in L..total_buffer_capacity :
                 /\ FailureDraws(L2) >= FailureDraws(L)
                 /\ r < FailureDraws(L) => r < FailureDraws(L2)

\* a loaded switch failed on a draw that would not have failed it at load 0
C26_Witness ==
    /\ AfterDraw
    /\ is_failed[hist.op.sw]
    /\ hist.op.load > 0
    /\ hist.op.draw >= FailureDraws(0)

-----------------------------------------------------------------------------
(* The compression stage of test_run.py: the packet generator's output is   *)
(* the CompressionWrapper (pg.out = comp), whose output is the next element *)
(* (comp.out = fib1).  The generator hands each packet over by calling      *)
(* out.put(packet), the call every upstream component makes.                *)

\* the most packets the generator emits in one run
MaxPackets == 3

\* size_dist of the generator
PacketSizes == {1500, 1000}

\* compression_ratio = 0.6, as <<numerator, denominator>>
compression_ratio == <<3, 5>>

\* packet.size *= self.compression_ratio
Compressed(packet) ==
    [packet EXCEPT !.size = (@ * compression_ratio[1]) \div compression_ratio[2]]

\* CompressionWrapper.put(packet) as out.put(packet) calls it.  The body of
\* put holds a yield, so put is a generator function: the call builds a
\* generator object and runs none of the body (no delay, no change of
\* packet.size, bytes_saved or packets_processed, no self.out.put).  The
\* caller drops the object; no env.process is created for it, so nothing
\* ever iterates it.
call_put(c, packet, t) == [c EXCEPT !.calls = Append(@, [packet |-> packet, at |-> t])]

InitComp ==
    /\ graph = DesGraph
    /\ caller_graph = PassedGraph(DesGraph)
    /\ comp = NoComp
    /\ weight = [a \in Arcs(DesGraph) |-> NoWeight]
    /\ is_failed = [s \in Switches |-> FALSE]
    /\ current_load = [s \in Switches |-> 0]
    /\ fib = EmptyFib(DesGraph)
    /\ ports = <<>>
    /\ now = 0
    /\ queue = <<>>
    /\ running = NoProc
    /\ update_interval = MonitorInterval
    /\ hist = [op |-> NoOp, lastTick |-> <<>>, read |-> NoRead]
    /\ NoFlow

\* the packet generator emits a packet of the given size: self.out.put(packet)
GenPacket(size) ==
    /\ Len(comp.calls) < MaxPackets
    /\ comp' = call_put(comp, [id |-> Len(comp.calls) + 1, size |-> size], now)
    /\ UNCHANGED <<graph, weight, is_failed, current_load, fib, ports, now, queue,
                   running, update_interval, hist, caller_graph, flowVars>>

\* env.run: the clock moves on to the next event
ClockTick ==
    /\ now < MaxTime
    /\ now' = now + 1
    /\ UNCHANGED <<graph, weight, is_failed, current_load, fib, ports, queue,
                   running, update_interval, hist, caller_graph, comp, flowVars>>

NextComp ==
    \/ \E size \in PacketSizes : GenPacket(size)
    \/ ClockTick

SpecComp == InitComp /\ [][NextComp]_vars

\* C27: every packet handed to CompressionWrapper.put is, once the
\* processing delay (a hundredth of a millisecond, less than one step of the
\* clock) has passed, forwarded exactly once to the output with its size
\* multiplied by compression_ratio, and packets_processed equals the number
\* of packets forwarded so far.
C27_ForwardedOnce ==
    /\ \A i \in 1..Len(comp.calls) :
          now > comp.calls[i].at =>
             Cardinality({j \in 1..Len(comp.out) :
                             comp.out[j] = Compressed(comp.calls[i].packet)}) = 1
    /\ comp.packets_processed = Len(comp.out)

-----------------------------------------------------------------------------
\* the traffic injected at the sources: raw_traffic, compressed when the
\* scenario compresses
Injected == Compression(raw_traffic, scenario_type, ratio_draw).traffic

\* C28: in every propagation cycle, on every topology, the total load
\* arriving at the sinks is at most the traffic injected at the sources.
C28_SinksWithinInjected ==
    result.done => SumLoads(result.node_status, SinkNodes(G)) <= Injected

-----------------------------------------------------------------------------
\* following the FIB next hops for destination d from node n reaches d
\* without coming to a node of seen (the nodes already visited)
RECURSIVE FollowsTo(_, _, _)
FollowsTo(n, d, seen) ==
    IF n = d THEN TRUE
    ELSE LET hop == fib[n][d]
         IN /\ hop # None
            /\ hop \notin seen
            /\ FollowsTo(hop, d, seen \cup {hop})

\* C29: after any recompute the FIBs are loop-free: from every node with an
\* entry for a destination d, following the next hops for d reaches d without
\* visiting a node twice, with infinite weights and with entries left from
\* earlier cycles included.
C29_FibLoopFree ==
    AfterRecompute =>
        \A s \in NodeSet(graph) : \A d \in NodeSet(graph) \ {s} :
            fib[s][d] # None => FollowsTo(s, d, {s})

-----------------------------------------------------------------------------
\* C30: the routing controller never writes to the FIB of a failed switch:
\* every recompute that runs while a switch is failed leaves that switch's
\* FIB as it was.
C30_FailedFibUntouched ==
    [][\A s \in NodeSet(graph) : is_failed[s] => fib'[s] = fib[s]]_vars

\* the diamond after SW2 failed and a recompute ran: the edge into SW2 weighs
\* +infinity, SW1 now reaches SW4 through SW3, and SW2 still holds the entry
\* for SW4 that a cycle before its failure wrote
C30_Witness ==
    /\ AfterRecompute
    /\ graph = DiamondGraph
    /\ is_failed["SW2"]
    /\ weight[<<"SW1", "SW2">>] = Inf
    /\ fib["SW1"]["SW4"] = "SW3"
    /\ fib["SW2"]["SW4"] = "SW4"

-----------------------------------------------------------------------------
\* the first-layer and second-layer switches of the N+1 topology
LayerSwitches == {"SwA1", "SwB1", "SwA2", "SwB2"}

\* C31: in the N+1 topology with rerouting enabled no traffic is lost: the
\* load arriving at Storage-1 equals the traffic injected at Server-1 (after
\* compression), and no first-layer or second-layer switch ends the cycle
\* Failed or Overloaded.
C31_ReroutingLosesNothing ==
    (result.done /\ G = NPlus1 /\ Reroutes(scenario_type)) =>
        /\ result.node_status["Server-1"].load = Injected
        /\ result.node_status["Storage-1"].load = Injected
        /\ \A sw \in LayerSwitches : result.node_status[sw].state \notin FailedStates

\* both first-layer switches were over the threshold and rerouted their
\* excess, the standby carries more than the threshold, and all of the
\* injected traffic arrived at the sink
C31_Witness ==
    /\ result.done
    /\ G = NPlus1
    /\ Reroutes(scenario_type)
    /\ result.node_status["SwA1"].state = "Rerouted"
    /\ result.node_status["SwB1"].state = "Rerouted"
    /\ result.node_status["Sw-Standby"].load > threshold
    /\ result.node_status["Storage-1"].load = Injected
    /\ Injected > 2 * threshold

====
